---- MODULE Spec2Model ----
(***************************************************************************)
(* Model of the HTS tariff calculator backend:                             *)
(*   - DutyCalculator (services/duty_calculator.py): the duty-rate text    *)
(*     classifier/parser and the CIF / landed-cost arithmetic;             *)
(*   - HTSDataService (services/hts_data_service.py): product table,       *)
(*     calculation history and calculate_duties;                           *)
(*   - calculate_tariff (api/tariff/router.py): the HTTP endpoint.         *)
(*                                                                         *)
(* Texts are sequences of one-character strings.  Money is an integer      *)
(* number of cents (Decimal quantized to 0.01); float inputs are integers  *)
(* in the units given by MoneyScale / WeightScale, which is exactly what   *)
(* Decimal(str(x)) yields for such short decimal floats.                   *)
(***************************************************************************)
EXTENDS Integers, Sequences, FiniteSets, TLC

(***************************************************************************)
(* Characters and texts                                                    *)
(***************************************************************************)
\* "cent" stands for the one character U+00A2 (the cent sign).
CENT == "cent"

\* Python None passed for Optional[float] weight_kg / Optional[int] quantity.
None == -1

\* Python None / SQL NULL in a rate column (a value that is not a text).
NoText == <<"None">>

Digits == {"0", "1", "2", "3", "4", "5", "6", "7", "8", "9"}

DigitVal == [c \in Digits |->
               CASE c = "0" -> 0 [] c = "1" -> 1 [] c = "2" -> 2 [] c = "3" -> 3
                 [] c = "4" -> 4 [] c = "5" -> 5 [] c = "6" -> 6 [] c = "7" -> 7
                 [] c = "8" -> 8 [] c = "9" -> 9]

IsDigit(c) == c \in Digits          \* regex \d
IsSpace(c) == c = " "               \* regex \s (only the blank is used)
IsNumCh(c) == c \in Digits \/ c = "."   \* regex [\d.]

UpperToLower ==
  [c \in {"A","B","C","D","E","F","G","H","I","J","K","L","M",
          "N","O","P","Q","R","S","T","U","V","W","X","Y","Z"} |->
     CASE c = "A" -> "a" [] c = "B" -> "b" [] c = "C" -> "c" [] c = "D" -> "d"
       [] c = "E" -> "e" [] c = "F" -> "f" [] c = "G" -> "g" [] c = "H" -> "h"
       [] c = "I" -> "i" [] c = "J" -> "j" [] c = "K" -> "k" [] c = "L" -> "l"
       [] c = "M" -> "m" [] c = "N" -> "n" [] c = "O" -> "o" [] c = "P" -> "p"
       [] c = "Q" -> "q" [] c = "R" -> "r" [] c = "S" -> "s" [] c = "T" -> "t"
       [] c = "U" -> "u" [] c = "V" -> "v" [] c = "W" -> "w" [] c = "X" -> "x"
       [] c = "Y" -> "y" [] c = "Z" -> "z"]

\* mutant of lower: the text is not lowercased
lower_missing(s) == s

\* str.lower()
lower(s) == [i \in 1..Len(s) |->
               IF s[i] \in DOMAIN UpperToLower THEN UpperToLower[s[i]] ELSE s[i]]

\* str.strip()
strip(s) ==
  LET keep == {i \in 1..Len(s) : ~IsSpace(s[i])}
  IN  IF keep = {} THEN <<>>
      ELSE LET a == CHOOSE i \in keep : \A k \in keep : i <= k
               b == CHOOSE i \in keep : \A k \in keep : i >= k
           IN  SubSeq(s, a, b)

\* every character of s[i..j-1] satisfies the class
AllDigit(s, i, j) == \A k \in i..(j-1) : IsDigit(s[k])
AllSpace(s, i, j) == \A k \in i..(j-1) : IsSpace(s[k])
AllNumCh(s, i, j) == \A k \in i..(j-1) : IsNumCh(s[k])

\* the literal lit occurs in s at position i
HasAt(s, i, lit) ==
  /\ i >= 1
  /\ i + Len(lit) - 1 <= Len(s)
  /\ \A k \in 1..Len(lit) : s[i + k - 1] = lit[k]

\* Python "lit in s" / re.search of a literal
Contains(s, lit) == \E i \in 1..Len(s) : HasAt(s, i, lit)

\* first position at or after i that holds no blank (end of a greedy \s*)
SkipSpace(s, i) ==
  CHOOSE e \in i..(Len(s) + 1) :
    AllSpace(s, i, e) /\ (e <= Len(s) => ~IsSpace(s[e]))

(***************************************************************************)
(* Regular expressions of duty_calculator.py                               *)
(***************************************************************************)
\* re.search(r'\d+\.?\d*\s*%', duty_str)
_is_percentage_duty(s) ==
  \E i \in 1..Len(s) : \E j \in (i + 1)..(Len(s) + 1) :
    /\ AllDigit(s, i, j)
    /\ \E dot \in {0, 1} :
         /\ (dot = 1 => (j <= Len(s) /\ s[j] = "."))
         /\ \E k \in (j + dot)..(Len(s) + 1) :
              /\ AllDigit(s, j + dot, k)
              /\ \E l \in k..Len(s) : AllSpace(s, k, l) /\ s[l] = "%"

\* re.search(r'¢/kg|cents/kg|cent/kg', duty_str)
_is_weight_duty(s) ==
  \/ Contains(s, <<CENT, "/", "k", "g">>)
  \/ Contains(s, <<"c", "e", "n", "t", "s", "/", "k", "g">>)
  \/ Contains(s, <<"c", "e", "n", "t", "/", "k", "g">>)

\* re.search(r'\$/unit|\$\s*/\s*unit|dollar/unit', duty_str)
_is_unit_duty(s) ==
  \/ Contains(s, <<"$", "/", "u", "n", "i", "t">>)
  \/ \E i \in 1..Len(s) :
       /\ s[i] = "$"
       /\ \E a \in (i + 1)..Len(s) :
            /\ AllSpace(s, i + 1, a)
            /\ s[a] = "/"
            /\ \E b \in (a + 1)..Len(s) :
                 AllSpace(s, a + 1, b) /\ HasAt(s, b, <<"u", "n", "i", "t">>)
  \/ Contains(s, <<"d", "o", "l", "l", "a", "r", "/", "u", "n", "i", "t">>)

\* '+' in duty_str or 'plus' in duty_str or '&' in duty_str
_is_compound_duty(s) ==
  \/ Contains(s, <<"+">>)
  \/ Contains(s, <<"p", "l", "u", "s">>)
  \/ Contains(s, <<"&">>)

(* A match is <<start, group start, group end (exclusive), match end        *)
(* (exclusive)>>.  The sets below hold every way the pattern matches.       *)

\* r'([\d.]+)\s*%'
PercentMatches(s) ==
  { <<t[1], t[1], t[2], t[3] + 1>> :
      t \in { u \in (1..Len(s)) \X (1..(Len(s) + 1)) \X (1..Len(s)) :
                /\ u[1] < u[2] /\ u[2] <= u[3]
                /\ AllNumCh(s, u[1], u[2])
                /\ AllSpace(s, u[2], u[3])
                /\ s[u[3]] = "%" } }

\* r'([\d.]+)\s*¢/kg'
WeightMatches(s) ==
  { <<t[1], t[1], t[2], t[3] + 4>> :
      t \in { u \in (1..Len(s)) \X (1..(Len(s) + 1)) \X (1..Len(s)) :
                /\ u[1] < u[2] /\ u[2] <= u[3]
                /\ AllNumCh(s, u[1], u[2])
                /\ AllSpace(s, u[2], u[3])
                /\ HasAt(s, u[3], <<CENT, "/", "k", "g">>) } }

\* r'\$?([\d.]+)\s*/?\s*unit'
UnitMatches(s) ==
  UNION { UNION { UNION { UNION {
    { <<i, g, j, c + 4>> :
        c \in { x \in b..Len(s) :
                  AllSpace(s, b, x) /\ HasAt(s, x, <<"u", "n", "i", "t">>) } }
    : b \in { x \in {SkipSpace(s, j), SkipSpace(s, j) + 1} :
                x = SkipSpace(s, j) + 1
                  => (SkipSpace(s, j) <= Len(s) /\ s[SkipSpace(s, j)] = "/") } }
    : j \in { x \in (g + 1)..(Len(s) + 1) : AllNumCh(s, g, x) } }
    : g \in { x \in {i, i + 1} : x = i + 1 => s[i] = "$" } }
    : i \in 1..Len(s) }

\* is there a match that starts at or after position p
HasMatchFrom(ms, p) == \E m \in ms : m[1] >= p

\* the match the regex engine reports when scanning from p: leftmost start,
\* '$?' taken when possible, the greedy group as long as possible
LeftmostFrom(ms, p) ==
  LET cand  == {m \in ms : m[1] >= p}
      first == {m \in cand : \A n \in cand : m[1] <= n[1]}
      dollr == {m \in first : \A n \in first : m[2] >= n[2]}
  IN  CHOOSE m \in dollr : \A n \in dollr : m[3] >= n[3]

Group(s, m) == SubSeq(s, m[2], m[3] - 1)

\* re.findall: group 1 of the successive non-overlapping matches
RECURSIVE FindAllFrom(_, _, _)
FindAllFrom(s, ms, p) ==
  IF ~HasMatchFrom(ms, p) THEN <<>>
  ELSE LET m == LeftmostFrom(ms, p)
       IN  <<Group(s, m)>> \o FindAllFrom(s, ms, m[4])

re_findall(s, ms) == FindAllFrom(s, ms, 1)

(* re.split(r'\s*[\+&]\s*|,\s*|\s+plus\s+', duty_str): a delimiter match is *)
(* <<start, alternative, end (exclusive)>>.                                 *)
DelimMatches(s) ==
  { <<i, 1, SkipSpace(s, SkipSpace(s, i) + 1)>> :
      i \in { x \in 1..Len(s) :
                SkipSpace(s, x) <= Len(s) /\ s[SkipSpace(s, x)] \in {"+", "&"} } }
  \cup
  { <<i, 2, SkipSpace(s, i + 1)>> : i \in { x \in 1..Len(s) : s[x] = "," } }
  \cup
  { <<i, 3, SkipSpace(s, SkipSpace(s, i) + 4)>> :
      i \in { x \in 1..Len(s) :
                /\ IsSpace(s[x])
                /\ HasAt(s, SkipSpace(s, x), <<"p", "l", "u", "s">>)
                /\ SkipSpace(s, x) + 4 <= Len(s)
                /\ IsSpace(s[SkipSpace(s, x) + 4]) } }

\* leftmost delimiter at or after p; at one start the first alternative wins
LeftmostDelim(ds, p) ==
  LET cand  == {d \in ds : d[1] >= p}
      first == {d \in cand : \A e \in cand : d[1] <= e[1]}
  IN  CHOOSE d \in first : \A e \in first : d[2] <= e[2]

RECURSIVE SplitFrom(_, _, _)
SplitFrom(s, ds, p) ==
  IF ~(\E d \in ds : d[1] >= p) THEN <<SubSeq(s, p, Len(s))>>
  ELSE LET d == LeftmostDelim(ds, p)
       IN  <<SubSeq(s, p, d[1] - 1)>> \o SplitFrom(s, ds, d[3])

re_split(s) == SplitFrom(s, DelimMatches(s), 1)

(***************************************************************************)
(* Numbers                                                                 *)
(***************************************************************************)
\* float inputs product_cost/freight/insurance are counted in 1/MoneyScale
\* dollars, weight_kg in 1/WeightScale kilograms; Decimal amounts in cents.
MoneyScale == 1000
WeightScale == 10

RECURSIVE Pow10(_)
Pow10(n) == IF n = 0 THEN 1 ELSE 10 * Pow10(n - 1)

RECURSIVE DigitsToInt(_)
DigitsToInt(s) ==
  IF Len(s) = 0 THEN 0
  ELSE 10 * DigitsToInt(SubSeq(s, 1, Len(s) - 1)) + DigitVal[s[Len(s)]]

\* does float(tok) raise ValueError, for a token matched by [\d.]+
FloatRaises(tok) ==
  \/ Cardinality({i \in 1..Len(tok) : tok[i] = "."}) > 1
  \/ ~(\E i \in 1..Len(tok) : IsDigit(tok[i]))

\* float(tok) as the exact decimal <<mantissa, scale>> = mantissa / scale
\* (what Decimal(str(float(tok))) holds for a short decimal token)
ParseFloat(tok) ==
  LET dots == {i \in 1..Len(tok) : tok[i] = "."}
      frac == IF dots = {} THEN 0 ELSE Len(tok) - (CHOOSE i \in dots : TRUE)
  IN  <<DigitsToInt(SelectSeq(tok, IsDigit)), Pow10(frac)>>

\* Decimal.quantize(Decimal('0.01'), rounding=ROUND_HALF_UP) of num/den cents
\* (num >= 0, den > 0)
RoundHalfUp(num, den) == (2 * num + den) \div (2 * den)

\* float(amount / cif_value * 100) if cif_value > 0 else 0.0, as an exact
\* fraction <<numerator, denominator>> of a percent
EffectiveRate(amount, cif_value) ==
  IF cif_value > 0 THEN <<amount * 100, cif_value>> ELSE <<0, 1>>

(***************************************************************************)
(* DutyCalculator                                                          *)
(***************************************************************************)
DutyComponent(type, rate, unit, description, amount) ==
  [type |-> type, rate |-> rate, unit |-> unit,
   description |-> description, amount |-> amount]

\* dataclass DutyCalculation; applicable defaults to True, notes to None
\* (None is written <<>>, as _format_duty_calculation's "notes or []" does)
DutyCalculation(duty_type, original_rate, components, total_amount, effective_rate, applicable, notes) ==
  [duty_type |-> duty_type, original_rate |-> original_rate,
   components |-> components, total_amount |-> total_amount,
   effective_rate |-> effective_rate, applicable |-> applicable,
   notes |-> notes]

\* placeholder carried by a call that raised instead of returning
NoCalc == DutyCalculation("none", <<>>, <<>>, 0, <<0, 1>>, FALSE, <<>>)

\* an exception is its Python type and message; NoException = normal return
NoException == [type |-> "none", msg |-> ""]
\* raised by float() on a token such as '1.2.3' or '.'
FloatError == [type |-> "ValueError",
               msg |-> "could not convert string to float"]

Returned(v) == [exc |-> NoException, ret |-> v]
Raised(e) == [exc |-> e, ret |-> NoCalc]

_create_free_duty(duty_str) ==
  DutyCalculation("free", duty_str,
                  <<DutyComponent("free", <<0, 1>>, "", "Duty-free", 0)>>,
                  0, <<0, 1>>, TRUE,
                  <<"Product qualifies for duty-free entry">>)

_create_error_duty(duty_str, error_msg) ==
  DutyCalculation("complex", duty_str, <<>>, 0, <<0, 1>>, FALSE,
                  << <<"Error: ", error_msg>> >>)

\* mutant of PercentAmount: the amount is truncated to cents (ROUND_DOWN)
PercentAmount_truncated(cif_value, rate) ==
  (cif_value * rate[1]) \div (100 * rate[2])

\* (cif_value * Decimal(str(rate)) / 100).quantize(0.01, ROUND_HALF_UP)
PercentAmount(cif_value, rate) ==
  RoundHalfUp(cif_value * rate[1], 100 * rate[2])

\* mutant of WeightAmount: the rate is taken as dollars per kg (no "/ 100")
WeightAmount_in_dollars(rate, weight_kg) ==
  RoundHalfUp(100 * rate[1] * weight_kg, rate[2] * WeightScale)

\* (Decimal(str(rate)) * Decimal(str(weight_kg)) / 100).quantize(...)
WeightAmount(rate, weight_kg) ==
  RoundHalfUp(rate[1] * weight_kg, rate[2] * WeightScale)

\* mutant of UnitAmount: the amount is truncated to cents (ROUND_DOWN)
UnitAmount_truncated(rate, quantity) ==
  (100 * rate[1] * quantity) \div rate[2]

\* (Decimal(str(rate)) * Decimal(str(quantity))).quantize(...)
UnitAmount(rate, quantity) ==
  RoundHalfUp(100 * rate[1] * quantity, rate[2])

_calculate_percentage_duty(duty_str, cif_value) ==
  LET ms == PercentMatches(duty_str)
  IN  IF ~HasMatchFrom(ms, 1)
      THEN Returned(_create_error_duty(duty_str,
                                       "Could not parse percentage rate"))
      ELSE LET tok == Group(duty_str, LeftmostFrom(ms, 1))
           IN  IF FloatRaises(tok) THEN Raised(FloatError)
               ELSE LET rate   == ParseFloat(tok)
                        amount == PercentAmount(cif_value, rate)
                    IN  Returned(DutyCalculation(
                          "percentage", duty_str,
                          <<DutyComponent("percentage", rate, "%",
                                          "% of CIF value", amount)>>,
                          amount, rate, TRUE, <<>>))

_calculate_weight_duty(duty_str, cif_value, weight_kg) ==
  LET ms == WeightMatches(duty_str)
  IN  IF weight_kg = None
      THEN Returned(_create_error_duty(duty_str,
                      "Weight required for weight-based duty"))
      ELSE IF ~HasMatchFrom(ms, 1)
      THEN Returned(_create_error_duty(duty_str,
                                       "Could not parse weight rate"))
      ELSE LET tok == Group(duty_str, LeftmostFrom(ms, 1))
           IN  IF FloatRaises(tok) THEN Raised(FloatError)
               ELSE LET cents_per_kg == ParseFloat(tok)
                        amount == WeightAmount(cents_per_kg, weight_kg)
                    IN  Returned(DutyCalculation(
                          "specific_weight", duty_str,
                          <<DutyComponent("specific_weight", cents_per_kg,
                                          "cent/kg", "cent/kg x kg", amount)>>,
                          amount, EffectiveRate(amount, cif_value), TRUE,
                          <<>>))

_calculate_unit_duty(duty_str, cif_value, quantity) ==
  LET ms == UnitMatches(duty_str)
  IN  IF quantity = None
      THEN Returned(_create_error_duty(duty_str,
                      "Quantity required for unit-based duty"))
      ELSE IF ~HasMatchFrom(ms, 1)
      THEN Returned(_create_error_duty(duty_str,
                                       "Could not parse unit rate"))
      ELSE LET tok == Group(duty_str, LeftmostFrom(ms, 1))
           IN  IF FloatRaises(tok) THEN Raised(FloatError)
               ELSE LET dollars_per_unit == ParseFloat(tok)
                        amount == UnitAmount(dollars_per_unit, quantity)
                    IN  Returned(DutyCalculation(
                          "specific_unit", duty_str,
                          <<DutyComponent("specific_unit", dollars_per_unit,
                                          "$/unit", "$/unit x units", amount)>>,
                          amount, EffectiveRate(amount, cif_value), TRUE,
                          <<>>))

\* mutant of SumAmounts: "total_amount = amount" in place of "+="
SumAmounts_assigned(components) ==
  IF Len(components) = 0 THEN 0
  ELSE components[Len(components)].amount

RECURSIVE SumAmounts(_)
SumAmounts(components) ==
  IF Len(components) = 0 THEN 0
  ELSE components[1].amount + SumAmounts(Tail(components))

\* one pass of the "for part in parts" loop of _calculate_compound_duty;
\* acc = [exc, components, total_amount]
RECURSIVE CompoundLoop(_, _, _, _, _)
CompoundLoop(parts, cif_value, weight_kg, quantity, acc) ==
  IF Len(parts) = 0 \/ acc.exc # NoException THEN acc
  ELSE LET part == strip(Head(parts))
           calc == IF _is_percentage_duty(part)
                     THEN _calculate_percentage_duty(part, cif_value)
                   ELSE IF _is_weight_duty(part)
                     THEN _calculate_weight_duty(part, cif_value, weight_kg)
                   ELSE IF _is_unit_duty(part)
                     THEN _calculate_unit_duty(part, cif_value, quantity)
                   ELSE Returned(NoCalc)      \* "continue"
           next == IF part = <<>> THEN acc
                   ELSE IF calc.exc # NoException
                     THEN [acc EXCEPT !.exc = calc.exc]
                   ELSE IF Len(calc.ret.components) > 0
                     THEN [acc EXCEPT
                             !.components = @ \o calc.ret.components,
                             !.total_amount = @ + calc.ret.total_amount]
                   ELSE acc
       IN  CompoundLoop(Tail(parts), cif_value, weight_kg, quantity, next)

_calculate_compound_duty(duty_str, cif_value, weight_kg, quantity) ==
  LET acc == CompoundLoop(re_split(duty_str), cif_value, weight_kg, quantity,
                          [exc |-> NoException, components |-> <<>>,
                           total_amount |-> 0])
  IN  IF acc.exc # NoException THEN Raised(acc.exc)
      ELSE Returned(DutyCalculation(
             "compound", duty_str, acc.components, acc.total_amount,
             EffectiveRate(acc.total_amount, cif_value), TRUE,
             <<"Compound duty with n components">>))

_calculate_complex_duty(duty_str, cif_value, weight_kg, quantity) ==
  LET percentage_matches == re_findall(duty_str, PercentMatches(duty_str))
      weight_matches     == re_findall(duty_str, WeightMatches(duty_str))
      unit_matches       == re_findall(duty_str, UnitMatches(duty_str))
      \* "if weight_kg:" / "if quantity:" - None and 0 are both falsy
      weight_used == IF weight_kg # None /\ weight_kg # 0
                       THEN weight_matches ELSE <<>>
      unit_used   == IF quantity # None /\ quantity # 0
                       THEN unit_matches ELSE <<>>
      raises == \/ \E i \in 1..Len(percentage_matches) :
                      FloatRaises(percentage_matches[i])
                \/ \E i \in 1..Len(weight_used) : FloatRaises(weight_used[i])
                \/ \E i \in 1..Len(unit_used) : FloatRaises(unit_used[i])
      components ==
        [i \in 1..Len(percentage_matches) |->
           DutyComponent("percentage", ParseFloat(percentage_matches[i]), "%",
                         "% (estimated)",
                         PercentAmount(cif_value,
                                       ParseFloat(percentage_matches[i])))]
        \o
        [i \in 1..Len(weight_used) |->
           DutyComponent("specific_weight", ParseFloat(weight_used[i]),
                         "cent/kg", "cent/kg (estimated)",
                         WeightAmount(ParseFloat(weight_used[i]), weight_kg))]
        \o
        [i \in 1..Len(unit_used) |->
           DutyComponent("specific_unit", ParseFloat(unit_used[i]), "$/unit",
                         "$/unit (estimated)",
                         UnitAmount(ParseFloat(unit_used[i]), quantity))]
      total_amount == SumAmounts(components)
  IN  IF raises THEN Raised(FloatError)
      ELSE IF Len(components) = 0
      THEN Returned(_create_error_duty(duty_str,
                                       "Unable to parse duty structure"))
      ELSE Returned(DutyCalculation(
             "complex", duty_str, components, total_amount,
             EffectiveRate(total_amount, cif_value), TRUE,
             <<"Complex duty structure - manual verification recommended">>))

FreeTexts == { <<>>, <<"f", "r", "e", "e">>, <<"0">>, <<"0", "%">> }

parse_duty_rate(duty_str, cif_value, weight_kg, quantity) ==
  IF duty_str = NoText \/ duty_str = <<>>
  THEN Returned(_create_free_duty(<<>>))
  ELSE LET s == lower(strip(duty_str))
       IN  IF s \in FreeTexts THEN Returned(_create_free_duty(s))
           ELSE IF _is_percentage_duty(s)
             THEN _calculate_percentage_duty(s, cif_value)
           ELSE IF _is_weight_duty(s)
             THEN _calculate_weight_duty(s, cif_value, weight_kg)
           ELSE IF _is_unit_duty(s)
             THEN _calculate_unit_duty(s, cif_value, quantity)
           ELSE IF _is_compound_duty(s)
             THEN _calculate_compound_duty(s, cif_value, weight_kg, quantity)
           ELSE _calculate_complex_duty(s, cif_value, weight_kg, quantity)

\* mutant of calculate_cif_value: banker's rounding (ROUND_HALF_EVEN)
calculate_cif_value_half_even(product_cost, freight, insurance) ==
  LET num == 100 * (product_cost + freight + insurance)
      q   == num \div MoneyScale
      r2  == 2 * (num % MoneyScale)
  IN  IF r2 > MoneyScale \/ (r2 = MoneyScale /\ q % 2 = 1) THEN q + 1 ELSE q

\* Decimal(str(product_cost)) + Decimal(str(freight)) + Decimal(str(insurance))
\* quantized to cents; the arguments are counted in 1/MoneyScale dollars
calculate_cif_value(product_cost, freight, insurance) ==
  RoundHalfUp(100 * (product_cost + freight + insurance), MoneyScale)

\* mutant of calculate_landed_cost: the duty is left out
calculate_landed_cost_without_duty(cif_value, total_duty) ==
  RoundHalfUp(cif_value, 1)

\* (cif_value + total_duty).quantize(Decimal('0.01'), ROUND_HALF_UP), in cents
calculate_landed_cost(cif_value, total_duty) ==
  RoundHalfUp(cif_value + total_duty, 1)

(***************************************************************************)
(* Rate texts used as inputs                                               *)
(***************************************************************************)
T_empty      == <<>>
T_blank      == <<" ", " ">>
T_free       == <<"f", "r", "e", "e">>
T_Free       == <<"F", "r", "e", "e">>
T_FREE_pad   == <<" ", "F", "R", "E", "E", " ">>
T_zero       == <<"0">>
T_zero_pct   == <<"0", "%">>
T_5pct       == <<"5", "%">>
T_26_4pct    == <<"2", "6", ".", "4", "%">>
T_4_5ckg     == <<"4", ".", "5", CENT, "/", "k", "g">>
T_pct_plus_ckg  == <<"5", "%", " ", "+", " ", "2", CENT, "/", "k", "g">>
T_pct_word_ckg  == <<"5", "%", " ", "p", "l", "u", "s", " ",
                     "2", CENT, "/", "k", "g">>
T_pct_amp_ckg   == <<"5", "%", "&", "2", CENT, "/", "k", "g">>
T_bad_pct    == <<"1", ".", "2", ".", "3", "%">>
T_dot_pct    == <<".", "%">>
T_dot_unit   == <<".", " ", "u", "n", "i", "t">>
T_garbage    == <<"g", "a", "r", "b", "a", "g", "e">>
T_usd_unit   == <<"$", "1", ".", "5", "0", "/", "u", "n", "i", "t">>
T_per_unit   == <<"1", ".", "5", "0", " ", "p", "e", "r", " ",
                  "u", "n", "i", "t">>
T_cents_kg   == <<"4", ".", "5", " ", "c", "e", "n", "t", "s", "/", "k", "g">>
T_two_pct    == <<"5", "%", " ", "o", "r", " ", "1", "0", "%">>
T_a_plus_b   == <<"a", " ", "+", " ", "b">>
T_dollar_unit == <<"$", "/", "u", "n", "i", "t">>
T_unit_word_ckg == <<"1", ".", "5", " ", "u", "n", "i", "t", " ",
                     "p", "l", "u", "s", " ", "2", CENT, " ", "/", "k", "g">>
T_two_units  == <<".", "0", "0", "0", "5", "u", "n", "i", "t",
                  ".", "0", "0", "0", "5", "u", "n", "i", "t">>
\* what str() makes of the NaN of an empty CSV cell
T_nan        == <<"n", "a", "n">>
T_FREE       == <<"F", "R", "E", "E">>

RateTexts ==
  { NoText, T_empty, T_blank, T_free, T_Free, T_FREE_pad, T_zero, T_zero_pct,
    T_5pct, T_26_4pct, T_4_5ckg, T_pct_plus_ckg, T_pct_word_ckg,
    T_pct_amp_ckg, T_bad_pct, T_dot_pct, T_dot_unit, T_garbage, T_usd_unit,
    T_per_unit, T_cents_kg, T_two_pct, T_a_plus_b, T_dollar_unit,
    T_unit_word_ckg, T_two_units, T_nan, T_FREE }

(***************************************************************************)
(* HTSDataService: product table, calculation history, calculate_duties    *)
(***************************************************************************)
NoSession == "None"       \* session_id = None
NoProduct == [hts_number |-> NoText, description |-> <<>>,
              general_duty_rate |-> NoText, special_duty_rate |-> NoText,
              column2_duty_rate |-> NoText]

\* raised by calculate_duties for an unknown HTS number
NotFoundError == [type |-> "ValueError",
                  msg |-> "HTS number not found in database"]
\* raised by the database session when a query cannot be executed
DatabaseError == [type |-> "OperationalError", msg |-> "database error"]

\* mutant of get_hts_product: the filter on hts_number is missing
get_hts_product_unfiltered(rows, hts_number) ==
  IF Len(rows) = 0 THEN NoProduct ELSE rows[1]

\* db.query(HTSProduct).filter(hts_number == h).first()
get_hts_product(rows, hts_number) ==
  LET hits == {i \in 1..Len(rows) : rows[i].hts_number = hts_number}
  IN  IF hits = {} THEN NoProduct
      ELSE rows[CHOOSE i \in hits : \A k \in hits : i <= k]

\* mutant of KeyLess: key=lambda x: x.total_amount
KeyLess_by_amount_only(x, y) == x.total_amount < y.total_amount

\* key=lambda x: x.total_amount if x.applicable else float('inf')
KeyLess(x, y) ==
  x.applicable /\ (~y.applicable \/ x.total_amount < y.total_amount)

\* min(calcs, key=...): the first element whose key no other one is below
MinByKey(calcs) ==
  calcs[CHOOSE i \in 1..Len(calcs) :
          /\ \A k \in 1..Len(calcs) : ~KeyLess(calcs[k], calcs[i])
          /\ \A k \in 1..(i - 1) : KeyLess(calcs[i], calcs[k])]

\* dict built for the API response; float(Decimal) of a 2-decimal amount
\* keeps the amount, so the cents are carried over
_format_duty_calculation(calc) ==
  [duty_type |-> calc.duty_type, original_rate |-> calc.original_rate,
   total_amount |-> calc.total_amount, effective_rate |-> calc.effective_rate,
   applicable |-> calc.applicable, components |-> calc.components,
   notes |-> calc.notes]

NoOutcome == [none |-> TRUE]

\* mutant of _save_calculation_history: a second row of one session is
\* refused by the table and the error reaches the caller
_save_calculation_history_once(hist, record, db) ==
  IF db = "write_fails" THEN [exc |-> NoException, history |-> hist]
  ELSE IF \E i \in 1..Len(hist) : hist[i].session_id = record.session_id
  THEN [exc |-> DatabaseError, history |-> hist]
  ELSE [exc |-> NoException, history |-> Append(hist, record)]

\* mutant of _save_calculation_history: the new row replaces the table's rows
_save_calculation_history_overwrite(hist, record, db) ==
  IF db = "write_fails" THEN [exc |-> NoException, history |-> hist]
  ELSE [exc |-> NoException, history |-> <<record>>]

\* mutant of _save_calculation_history: the exception is not caught
_save_calculation_history_uncaught(hist, record, db) ==
  IF db = "write_fails" THEN [exc |-> DatabaseError, history |-> hist]
  ELSE [exc |-> NoException, history |-> Append(hist, record)]

\* try: db.add(history); db.commit()  except: db.rollback(); log
_save_calculation_history(hist, record, db) ==
  IF db = "write_fails" THEN [exc |-> NoException, history |-> hist]
  ELSE [exc |-> NoException, history |-> Append(hist, record)]

\* inputs of the service calls
\* HTS numbers and descriptions are texts, as the rates are
H_horses == <<"0", "1", "0", "1", ".", "3", "0", ".", "0", "0", ".", "0", "0">>
H_absent == <<"9", "9", "9", "9", ".", "9", "9", ".", "9", "9", ".", "9", "9">>
D_live   == <<"l", "i", "v", "e", " ", "a", "n", "i", "m", "a", "l", "s">>
ProductHts  == {H_horses}
RequestHts  == ProductHts \cup {H_absent}
\* (product_cost, freight, insurance):
\*   $1000.010 + $0.004 + $0     = $1000.014  (rounds down to 1000.01)
\*   $10.011   + $0.004 + $0.010 = $10.025    (a half, rounds up to 10.03)
MoneyInputs  == { <<1000010, 4, 0>>, <<10011, 4, 10>> }
ServiceWeights    == {5000}            \* 500.0 kg
ServiceQuantities == {10}
Sessions     == {NoSession, "s1"}
DbStates     == {"ok", "write_fails", "read_fails"}

\* the shipment of the donkey test: $10000 + $500 + $100, 5 units, 500 kg
ScenarioMoney == <<10000000, 500000, 100000>>
ScenarioQuantity == 5
CatalogMoney == MoneyInputs \cup {ScenarioMoney}
CatalogQuantities == ServiceQuantities \cup {ScenarioQuantity}

\* the CIF values the service calls can produce
ServiceCifValues ==
  { calculate_cif_value(m[1], m[2], m[3]) : m \in CatalogMoney }

\* parse_duty_rate tabulated over the arguments calculate_duties can pass;
\* "@@ <<>>" makes the table an explicit function that is built once, so
\* that a text is parsed once and not once per step
ParseDutyRateTable ==
  [x \in RateTexts \X ServiceCifValues \X ServiceWeights \X CatalogQuantities
     |-> parse_duty_rate(x[1], x[2], x[3], x[4])] @@ <<>>

\* calculate_duties is a straight line of statements; each operator below is
\* one stretch of it and receives the locals computed so far as parameters.
\* Every one gives [exc, outcome, history].

\* an exception leaves calculate_duties (logged and re-raised)
Raise(e, hist) == [exc |-> e, outcome |-> NoOutcome, history |-> hist]

\* the result dictionary is built, the history row saved, the result returned
ReturnResult(product, cif_value, general_calc, special_calc, column2_calc, applicable_duty, landed_cost, hist, a, db) ==
  LET result ==
        [hts_details |-> [number |-> product.hts_number,
                          description |-> product.description],
         input_values |-> [product_cost |-> a.product_cost,
                           freight |-> a.freight, insurance |-> a.insurance,
                           quantity |-> a.quantity, weight_kg |-> a.weight_kg,
                           country_code |-> a.country_code,
                           cif_value |-> cif_value],
         duty_calculations |->
           [general |-> _format_duty_calculation(general_calc),
            special |-> _format_duty_calculation(special_calc),
            column2 |-> _format_duty_calculation(column2_calc),
            applicable |-> _format_duty_calculation(applicable_duty)],
         summary |-> [cif_value |-> cif_value,
                      total_duty |-> applicable_duty.total_amount,
                      landed_cost |-> landed_cost,
                      effective_duty_rate |-> applicable_duty.effective_rate]]
      saved == IF a.session_id # NoSession
               THEN _save_calculation_history(
                      hist,
                      [session_id |-> a.session_id,
                       hts_number |-> a.hts_number,
                       country_code |-> a.country_code,
                       cif_value |-> cif_value,
                       total_duty |-> applicable_duty.total_amount,
                       landed_cost |-> landed_cost], db)
               ELSE [exc |-> NoException, history |-> hist]
  IN  IF saved.exc # NoException THEN Raise(saved.exc, hist)
      ELSE [exc |-> NoException, outcome |-> result, history |-> saved.history]

\* the landed cost of the duty that was chosen
WithApplicableDuty(product, cif_value, general_calc, special_calc, column2_calc, applicable_duty, hist, a, db) ==
  ReturnResult(product, cif_value, general_calc, special_calc, column2_calc,
               applicable_duty,
               calculate_landed_cost(cif_value, applicable_duty.total_amount),
               hist, a, db)

\* the three parse_duty_rate calls have been made, in the order general,
\* special, column 2; the first that raised ends the call, otherwise the
\* applicable duty is chosen
WithCalcs(product, cif_value, general_calc, special_calc, column2_calc, hist, a, db) ==
  IF general_calc.exc # NoException THEN Raise(general_calc.exc, hist)
  ELSE IF special_calc.exc # NoException THEN Raise(special_calc.exc, hist)
  ELSE IF column2_calc.exc # NoException THEN Raise(column2_calc.exc, hist)
  ELSE WithApplicableDuty(product, cif_value, general_calc.ret,
                          special_calc.ret, column2_calc.ret,
                          MinByKey(<<general_calc.ret, special_calc.ret,
                                     column2_calc.ret>>),
                          hist, a, db)

\* one parse_duty_rate call per rate column, all with the same cif_value,
\* weight and quantity
ParseColumns(product, cif_value, calcs, hist, a, db) ==
  WithCalcs(product, cif_value, calcs[product.general_duty_rate],
            calcs[product.special_duty_rate],
            calcs[product.column2_duty_rate], hist, a, db)

\* the CIF value of the request
WithCifValue(product, cif_value, hist, a, db) ==
  ParseColumns(product, cif_value,
               [text \in {product.general_duty_rate,
                          product.special_duty_rate,
                          product.column2_duty_rate} |->
                  ParseDutyRateTable[<<text, cif_value, a.weight_kg,
                                       a.quantity>>]],
               hist, a, db)

\* the product row has been looked up
WithProduct(product, hist, a, db) ==
  IF product = NoProduct THEN Raise(NotFoundError, hist)
  ELSE WithCifValue(product,
                    calculate_cif_value(a.product_cost, a.freight,
                                        a.insurance),
                    hist, a, db)

\* HTSDataService.calculate_duties
calculate_duties(rows, hist, a, db) ==
  IF db = "read_fails" THEN Raise(DatabaseError, hist)
  ELSE WithProduct(get_hts_product(rows, a.hts_number), hist, a, db)

\* existing row updated in place, otherwise a new row appended
add_hts_product(rows, p) ==
  LET hits == {i \in 1..Len(rows) : rows[i].hts_number = p.hts_number}
  IN  IF hits # {}
      THEN [rows EXCEPT ![CHOOSE i \in hits : \A k \in hits : i <= k] = p]
      ELSE Append(rows, p)

(***************************************************************************)
(* bulk_import_hts_data                                                    *)
(***************************************************************************)
\* a cell of the DataFrame is a text, or NaN when the CSV field is empty
NaN == <<"NaN">>

\* pd.isna(cell)
isna(cell) == cell = NaN

\* str(cell): str(float('nan')) is 'nan'
py_str(cell) == IF cell = NaN THEN <<"n", "a", "n">> ELSE cell

\* raised by pd.read_csv for a path that cannot be read
FileError == [type |-> "FileNotFoundError", msg |-> "No such file"]

\* the counters before the first row, with the product rows
ImportStart(rows) ==
  [rows |-> rows, imported |-> 0, updated |-> 0, errors |-> 0]

\* "if existing:" of one row.  The update branch assigns to the object that
\* get_hts_product returned after closing its session and never commits,
\* so the table is not written; the insert branch calls add_hts_product,
\* whose exception is counted by the row's except clause.
ImportFound(acc, row, hts_number, description, existing, db) ==
  IF existing # NoProduct
  THEN [acc EXCEPT !.updated = @ + 1]
  ELSE IF db = "write_fails"
  THEN [acc EXCEPT !.errors = @ + 1]
  ELSE [acc EXCEPT
          !.rows = add_hts_product(
                     @, [hts_number |-> hts_number,
                         description |-> description,
                         general_duty_rate |->
                           strip(py_str(row.general_duty_rate)),
                         special_duty_rate |->
                           strip(py_str(row.special_duty_rate)),
                         column2_duty_rate |->
                           strip(py_str(row.column2_duty_rate))]),
          !.imported = @ + 1]

\* mutant of ImportRow: a row whose lookup raises is not counted
ImportRow_error_uncounted(acc, row, db) ==
  IF isna(row.hts_number) THEN acc
  ELSE IF db = "read_fails" THEN acc
  ELSE ImportFound(acc, row, strip(py_str(row.hts_number)),
                   strip(py_str(row.description)),
                   get_hts_product(acc.rows, strip(py_str(row.hts_number))),
                   db)

\* one pass of "for _, row in df.iterrows()"
ImportRow(acc, row, db) ==
  IF isna(row.hts_number) THEN acc                       \* continue
  ELSE IF db = "read_fails" THEN [acc EXCEPT !.errors = @ + 1]
  ELSE ImportFound(acc, row, strip(py_str(row.hts_number)),
                   strip(py_str(row.description)),
                   get_hts_product(acc.rows, strip(py_str(row.hts_number))),
                   db)

\* the dictionary bulk_import_hts_data returns
ImportResult(acc) ==
  [imported |-> acc.imported, updated |-> acc.updated, errors |-> acc.errors,
   total_processed |-> acc.imported + acc.updated + acc.errors]

\* the counters are returned, the rows stay as the loop left them
FinishImport(acc) ==
  [exc |-> NoException, outcome |-> ImportResult(acc), rows |-> acc.rows]

\* the loop over the rows i..Len(df); dbs[i] is the database during row i
RECURSIVE ImportRows(_, _, _, _)
ImportRows(df, dbs, i, acc) ==
  IF i > Len(df) THEN acc
  ELSE ImportRows(df, dbs, i + 1, ImportRow(acc, df[i], dbs[i]))

\* HTSDataService.bulk_import_hts_data: [exc, outcome, rows]
bulk_import_hts_data(rows, readable, df, dbs) ==
  IF ~readable
  THEN [exc |-> FileError, outcome |-> NoOutcome, rows |-> rows]
  ELSE FinishImport(ImportRows(df, dbs, 1, ImportStart(rows)))

(***************************************************************************)
(* calculate_tariff (POST /calculate)                                      *)
(***************************************************************************)
GeneratedSession == "uuid4"     \* str(uuid.uuid4())

\* status code of the answer for the exception calculate_duties raised
HttpStatus(exc) ==
  IF exc = NoException THEN 200
  ELSE IF exc.type = "ValueError" THEN 404     \* except ValueError
  ELSE 500                                     \* except Exception

(***************************************************************************)
(* RAGService, its vector store and the global settings                    *)
(***************************************************************************)
\* settings.SIMILARITY_THRESHOLD = 0.7, in hundredths
DefaultThreshold == 70
DefaultSettings == [SIMILARITY_THRESHOLD |-> DefaultThreshold]

\* similarity_threshold arguments of search_documents (None = not given)
CustomThresholds == {50, 90}

\* number of chunks the PDF file yields when it holds text
ChunkCount == 2
\* similarity scores (1 - distance, in hundredths) of the stored chunks for
\* a query
Scores == {60, 80, 95}

\* RAGService.__init__; "model" is embedding_service.model is not None,
\* "collection" is vector_db_service.collection is not None, "stored" is the
\* number of chunks in the persistent Chroma collection
NewRAGService ==
  [is_initialized |-> FALSE,
   processing_status |-> [status |-> "not_started", documents_processed |-> 0,
                          chunks_created |-> 0,
                          vector_db_initialized |-> FALSE],
   model |-> FALSE, collection |-> FALSE, stored |-> 0]

\* the lifespan coroutine and the request coroutines
RequestTasks == {"r1", "r2"}
Tasks == {"startup"} \cup RequestTasks

\* result of asyncio.gather(..., return_exceptions=True)
NotGathered == [embedding |-> "none", llm |-> "none", vector_db |-> "none"]

StartupTask == [pc |-> "idle", gathered |-> NotGathered]
IdleTask == [pc |-> "idle", op |-> "none", similarity_threshold |-> None,
             original_threshold |-> None, chunks |-> {}, raised |-> FALSE]
NoTasks == [t \in Tasks |-> IF t = "startup" THEN StartupTask ELSE IdleTask]

\* VectorDBService.get_collection_info()["count"], 0 when the call fails
CollectionCount(r) == IF r.collection THEN r.stored ELSE 0

\* VectorDBService.search_similar_documents: the chunks whose similarity is
\* at least the threshold the settings hold when the results are filtered;
\* [] when the query raises (no collection)
search_similar_documents(r, s) ==
  IF ~r.collection \/ r.stored = 0 THEN {}
  ELSE {score \in Scores : score >= s.SIMILARITY_THRESHOLD}

(***************************************************************************)
(* State                                                                   *)
(***************************************************************************)
VARIABLES
  products,   \* rows of table hts_products, in insertion order
  history,    \* rows of table calculation_history, in insertion order
  last,       \* the last service / endpoint call: arguments and what it gave
  pcall,      \* a direct call of the pure DutyCalculator functions
  callers,    \* the locals of the add / import calls that are under way
  rag,        \* the RAGService object and the services it owns
  settings,   \* the global settings object (core.config.settings)
  tasks       \* the coroutines of the event loop: where each one stands

ragvars == <<rag, settings, tasks>>

vars == <<products, history, last, pcall, callers, rag, settings, tasks>>

\* bound on the number of calculation_history rows
MaxHistory == 1

\* (general, special, column 2) rate texts of the products that are stored
RateTriples ==
  { <<T_5pct, T_4_5ckg, T_garbage>>,
    <<T_garbage, T_5pct, T_4_5ckg>>,
    <<T_4_5ckg, T_garbage, T_5pct>>,
    <<T_garbage, T_garbage, T_5pct>>,
    <<T_garbage, T_garbage, T_garbage>>,
    <<T_5pct, T_5pct, T_5pct>>,
    <<T_Free, T_5pct, T_garbage>>,
    <<NoText, T_blank, T_empty>>,
    <<T_bad_pct, T_5pct, T_5pct>>,
    <<T_5pct, T_garbage, T_dot_pct>>,
    <<T_garbage, T_a_plus_b, T_5pct>>,
    <<T_cents_kg, T_per_unit, T_dollar_unit>>,
    <<T_Free, T_5pct, T_dot_pct>> }

\* inputs of the direct calls of the calculator
PureCosts      == {0, 100, 1000000, 10001}  \* $0, $0.100, $1000.000, $10.001
PureFreights   == {0, 4}               \* $0, $0.004
PureInsurances == {0, 10}              \* $0, $0.010
PureWeights    == {None, 0, 1000, 5000}   \* None, 0 kg, 100.0 kg, 500.0 kg
PureQuantities == {None, 0, 10}

NoArgs == [hts_number |-> NoText, product_cost |-> 0, freight |-> 0,
           insurance |-> 0, quantity |-> 0, weight_kg |-> 0,
           country_code |-> "US", session_id |-> NoSession]

NoCall == [op |-> "none", args |-> NoArgs, db |-> "ok", session_id |-> NoSession,
           exc |-> NoException, outcome |-> NoOutcome, status |-> 0]

IdleCall == [pc |-> "idle", duty_str |-> NoText, product_cost |-> 0,
             freight |-> 0, insurance |-> 0, weight_kg |-> None,
             quantity |-> None, cif_value |-> 0,
             result |-> Returned(NoCalc), landed_cost |-> 0]

\* the callers that add or import products side by side (for instance the
\* API server and the load_sample_data script, on the same database file)
Callers == {"server", "loader"}

IdleCaller == [pc |-> "idle", p |-> NoProduct, existing |-> 0]
NoCallers  == [c \in Callers |-> IdleCaller]

Requests ==
  { [hts_number |-> h, product_cost |-> m[1], freight |-> m[2],
     insurance |-> m[3], quantity |-> q, weight_kg |-> w,
     country_code |-> "US", session_id |-> s] :
      h \in RequestHts, m \in MoneyInputs, q \in ServiceQuantities,
      w \in ServiceWeights, s \in Sessions }

(***************************************************************************)
(* Service specification                                                   *)
(***************************************************************************)
Init ==
  /\ products = <<>>
  /\ history = <<>>
  /\ last = NoCall
  /\ pcall = IdleCall
  /\ callers = NoCallers
  /\ rag = NewRAGService
  /\ settings = DefaultSettings
  /\ tasks = NoTasks

\* HTSDataService.add_hts_product
AddHtsProduct ==
  \E h \in ProductHts, t \in RateTriples :
    /\ products' = add_hts_product(products,
                     [hts_number |-> h, description |-> D_live,
                      general_duty_rate |-> t[1], special_duty_rate |-> t[2],
                      column2_duty_rate |-> t[3]])
    /\ last' = [NoCall EXCEPT !.op = "add_hts_product"]
    /\ UNCHANGED <<history, pcall, callers, ragvars>>

\* a calculation call has finished with r = [exc, outcome, history]: the rows
\* it left in calculation_history and what its caller got
Finish(op, args, db, session_id, r) ==
  /\ Len(r.history) <= MaxHistory
  /\ history' = r.history
  /\ last' = [op |-> op, args |-> args, db |-> db, session_id |-> session_id,
              exc |-> r.exc, outcome |-> r.outcome,
              status |-> IF op = "calculate_tariff" THEN HttpStatus(r.exc)
                         ELSE 0]
  /\ UNCHANGED <<products, pcall, callers, ragvars>>

\* HTSDataService.calculate_duties called directly
CalculateDuties ==
  \E a \in Requests, db \in DbStates :
    Finish("calculate_duties", a, db, a.session_id,
           calculate_duties(products, history, a, db))

\* request.session_id or str(uuid.uuid4())
SessionOf(request) ==
  IF request.session_id # NoSession THEN request.session_id
  ELSE GeneratedSession

\* POST /calculate: calculate_tariff
CalculateTariff ==
  \E request \in Requests, db \in DbStates :
    Finish("calculate_tariff", request, db, SessionOf(request),
           calculate_duties(products, history,
                            [request EXCEPT !.session_id = SessionOf(request)],
                            db))

Next == AddHtsProduct \/ CalculateDuties \/ CalculateTariff

Spec == Init /\ [][Next]_vars

(***************************************************************************)
(* Calculator specification: the pure functions on drawn inputs            *)
(***************************************************************************)
InitCalc ==
  /\ products = <<>>
  /\ history = <<>>
  /\ last = NoCall
  /\ callers = NoCallers
  /\ rag = NewRAGService
  /\ settings = DefaultSettings
  /\ tasks = NoTasks
  /\ \E t \in RateTexts, c \in PureCosts, f \in PureFreights,
        i \in PureInsurances, w \in PureWeights, q \in PureQuantities :
       pcall = [IdleCall EXCEPT !.pc = "start", !.duty_str = t,
                                !.product_cost = c, !.freight = f,
                                !.insurance = i, !.weight_kg = w,
                                !.quantity = q]

\* DutyCalculator.calculate_cif_value
CallCifValue ==
  /\ pcall.pc = "start"
  /\ pcall' = [pcall EXCEPT
                 !.pc = "cif",
                 !.cif_value = calculate_cif_value(pcall.product_cost,
                                                   pcall.freight,
                                                   pcall.insurance)]
  /\ UNCHANGED <<products, history, last, callers, ragvars>>

\* DutyCalculator.parse_duty_rate
CallParseDutyRate ==
  /\ pcall.pc = "cif"
  /\ pcall' = [pcall EXCEPT
                 !.pc = "done",
                 !.result = parse_duty_rate(pcall.duty_str, pcall.cif_value,
                                            pcall.weight_kg, pcall.quantity)]
  /\ UNCHANGED <<products, history, last, callers, ragvars>>

\* DutyCalculator.calculate_landed_cost on the duty that was computed
CallLandedCost ==
  /\ pcall.pc = "done"
  /\ pcall.result.exc = NoException
  /\ pcall' = [pcall EXCEPT
                 !.pc = "landed",
                 !.landed_cost =
                    calculate_landed_cost(pcall.cif_value,
                                          pcall.result.ret.total_amount)]
  /\ UNCHANGED <<products, history, last, callers, ragvars>>

NextCalc == CallCifValue \/ CallParseDutyRate \/ CallLandedCost

SpecCalc == InitCalc /\ [][NextCalc]_vars

(***************************************************************************)
(* Import specification: bulk_import_hts_data on drawn CSV files           *)
(***************************************************************************)
H_cattle == <<"0", "1", "0", "2", ".", "2", "9", ".", "4", "0", ".", "0", "0">>
D_horses == <<"h", "o", "r", "s", "e", "s">>

CsvRow(hts_number, description, general, special, column2) ==
  [hts_number |-> hts_number, description |-> description,
   general_duty_rate |-> general, special_duty_rate |-> special,
   column2_duty_rate |-> column2]

Row_horses   == CsvRow(H_horses, D_live, T_5pct, T_Free, T_4_5ckg)
\* the same HTS number with another description and other rates
Row_horses_2 == CsvRow(H_horses, D_horses, T_26_4pct, T_5pct, T_garbage)
\* no HTS number
Row_no_hts   == CsvRow(NaN, D_live, T_5pct, NaN, NaN)
\* padded cells and an empty rate cell
Row_cattle   == CsvRow(<<" ">> \o H_cattle \o <<" ">>, <<" ">> \o D_live,
                       NaN, T_FREE_pad, T_5pct)

CsvFiles ==
  { <<>>,
    <<Row_horses>>,
    <<Row_horses_2>>,
    <<Row_horses, Row_horses_2>>,
    <<Row_no_hts, Row_cattle>>,
    <<Row_cattle, Row_horses>>,
    <<Row_horses, Row_no_hts, Row_horses_2>> }

\* bulk_import_hts_data has returned or raised
FinishBulkImport(df, readable, dbs, r) ==
  /\ products' = r.rows
  /\ last' = [op |-> "bulk_import",
              args |-> [df |-> df, readable |-> readable, dbs |-> dbs],
              db |-> "ok", session_id |-> NoSession, exc |-> r.exc,
              outcome |-> r.outcome, status |-> 0]
  /\ UNCHANGED <<history, pcall, callers, ragvars>>

\* HTSDataService.bulk_import_hts_data on one file
BulkImport ==
  \E df \in CsvFiles, readable \in BOOLEAN :
    \E dbs \in [1..Len(df) -> DbStates] :
      FinishBulkImport(df, readable, dbs,
                       bulk_import_hts_data(products, readable, df, dbs))

NextImport == BulkImport

SpecImport == Init /\ [][NextImport]_vars

(***************************************************************************)
(* Catalog specification: products are added or imported, then duties are  *)
(* calculated for the stored HTS numbers                                   *)
(***************************************************************************)
CatalogRequests ==
  { [hts_number |-> h, product_cost |-> m[1], freight |-> m[2],
     insurance |-> m[3], quantity |-> q, weight_kg |-> w,
     country_code |-> "US", session_id |-> NoSession] :
      h \in {H_horses, H_cattle}, m \in CatalogMoney,
      q \in CatalogQuantities, w \in ServiceWeights }

\* HTSDataService.calculate_duties for a product of the catalog
CalculateStored ==
  \E a \in CatalogRequests :
    Finish("calculate_duties", a, "ok", a.session_id,
           calculate_duties(products, history, a, "ok"))

NextCatalog == AddHtsProduct \/ BulkImport \/ CalculateStored

SpecCatalog == Init /\ [][NextCatalog]_vars

(***************************************************************************)
(* Concurrent specification: add_hts_product and the rows of a bulk import *)
(* issued by callers that share the database.  A step is one statement run *)
(* against the database: the pysqlite connection opens no transaction for  *)
(* a SELECT, so the query and the commit of one call are separate steps.   *)
(***************************************************************************)
ConcurrentProducts ==
  { [hts_number |-> H_horses, description |-> D_live,
     general_duty_rate |-> T_5pct, special_duty_rate |-> T_Free,
     column2_duty_rate |-> T_4_5ckg],
    [hts_number |-> H_horses, description |-> D_horses,
     general_duty_rate |-> T_26_4pct, special_duty_rate |-> T_5pct,
     column2_duty_rate |-> T_garbage] }

\* position of the row .filter(hts_number == h).first() returns, 0 for None
FirstIndex(rows, hts_number) ==
  LET hits == {i \in 1..Len(rows) : rows[i].hts_number = hts_number}
  IN  IF hits = {} THEN 0 ELSE CHOOSE i \in hits : \A k \in hits : i <= k

\* add_hts_product: "existing = db.query(...).first()"
BeginAdd(c) ==
  /\ callers[c].pc = "idle"
  /\ \E p \in ConcurrentProducts :
       callers' = [callers EXCEPT
                     ![c] = [pc |-> "queried", p |-> p,
                             existing |-> FirstIndex(products, p.hts_number)]]
  /\ UNCHANGED <<products, history, last, pcall, ragvars>>

\* add_hts_product: the existing row is updated, or a new one is added, and
\* the session commits
CommitAdd(c) ==
  /\ callers[c].pc = "queried"
  /\ IF callers[c].existing # 0
     THEN products' = [products EXCEPT ![callers[c].existing] = callers[c].p]
     ELSE products' = Append(products, callers[c].p)
  /\ callers' = [callers EXCEPT ![c] = IdleCaller]
  /\ UNCHANGED <<history, last, pcall, ragvars>>

\* bulk import, one row: "existing = self.get_hts_product(hts_number)"
ImportLookup(c) ==
  /\ callers[c].pc = "idle"
  /\ \E p \in ConcurrentProducts :
       callers' = [callers EXCEPT
                     ![c] = [pc |-> "looked_up", p |-> p,
                             existing |-> FirstIndex(products, p.hts_number)]]
  /\ UNCHANGED <<products, history, last, pcall, ragvars>>

\* bulk import, one row: the update branch (nothing is written)
ImportUpdate(c) ==
  /\ callers[c].pc = "looked_up"
  /\ callers[c].existing # 0
  /\ callers' = [callers EXCEPT ![c] = IdleCaller]
  /\ UNCHANGED <<products, history, last, pcall, ragvars>>

\* bulk import, one row: the insert branch enters add_hts_product
ImportAdd(c) ==
  /\ callers[c].pc = "looked_up"
  /\ callers[c].existing = 0
  /\ callers' = [callers EXCEPT
                   ![c].pc = "queried",
                   ![c].existing = FirstIndex(products, callers[c].p.hts_number)]
  /\ UNCHANGED <<products, history, last, pcall, ragvars>>

NextConcurrent ==
  \E c \in Callers :
    \/ BeginAdd(c)
    \/ CommitAdd(c)
    \/ ImportLookup(c)
    \/ ImportUpdate(c)
    \/ ImportAdd(c)

SpecConcurrent == Init /\ [][NextConcurrent]_vars

(***************************************************************************)
(* Request specification: calculate_duties calls issued side by side, and  *)
(* add_hts_product calls between them.  A calculation runs one query (the  *)
(* product lookup), computes, and then writes its history row.             *)
(***************************************************************************)
ConcurrentRequests ==
  { [hts_number |-> H_horses, product_cost |-> 10011, freight |-> 4,
     insurance |-> 10, quantity |-> 10, weight_kg |-> 5000,
     country_code |-> "US", session_id |-> s] : s \in Sessions }

\* calculate_duties: "product = self.get_hts_product(hts_number)"
BeginCalc(c) ==
  /\ callers[c].pc = "idle"
  /\ \E a \in ConcurrentRequests :
       callers' = [callers EXCEPT
                     ![c] = [pc |-> "read", p |-> get_hts_product(
                                                    products, a.hts_number),
                             existing |-> 0, a |-> a]]
  /\ UNCHANGED <<products, history, last, pcall, ragvars>>

\* the call of caller c has ended with r = [exc, outcome, history]
EndCalcWith(c, db, r) ==
  /\ Len(r.history) <= MaxHistory
  /\ history' = r.history
  /\ last' = [op |-> "calculate_duties", args |-> callers[c].a, db |-> db,
              session_id |-> callers[c].a.session_id, exc |-> r.exc,
              outcome |-> r.outcome, status |-> 0]
  /\ callers' = [callers EXCEPT ![c] = IdleCaller]
  /\ UNCHANGED <<products, pcall, ragvars>>

\* calculate_duties from the product that was read to the return
EndCalc(c) ==
  /\ callers[c].pc = "read"
  /\ \E db \in {"ok", "write_fails"} :
       EndCalcWith(c, db,
                   WithProduct(callers[c].p, history, callers[c].a, db))

NextRequests ==
  \E c \in Callers :
    \/ BeginAdd(c)
    \/ CommitAdd(c)
    \/ BeginCalc(c)
    \/ EndCalc(c)

SpecRequests == Init /\ [][NextRequests]_vars

(***************************************************************************)
(* Retrieval specification: RAGService on the event loop.  The lifespan    *)
(* coroutine runs initialize(); once it has returned, request coroutines   *)
(* run ask_question, search_documents and reload_documents.  A step is the *)
(* code one coroutine runs between two awaits that suspend it (the         *)
(* run_in_executor calls of the services).                                 *)
(***************************************************************************)
hvars == <<products, history, last, pcall, callers>>

\* the application has started: "await rag_service.initialize()" returned
Serving == tasks["startup"].pc = "done"

\* processing_status.update({...}) of a finished load
Completed(r, chunks) ==
  [r EXCEPT !.processing_status =
              [status |-> "completed", documents_processed |-> 1,
               chunks_created |-> chunks, vector_db_initialized |-> TRUE]]

\* _load_documents of task t returns, r being the service after the load:
\* initialize() sets is_initialized and returns, reload_documents() returns
LoadReturns(t, r) ==
  /\ rag' = IF t = "startup" THEN [r EXCEPT !.is_initialized = TRUE] ELSE r
  /\ tasks' = [tasks EXCEPT ![t].pc = IF t = "startup" THEN "done" ELSE "idle"]

\* _load_documents of task t raises: its except clause (and the one of
\* initialize) sets the status to failed and re-raises
LoadRaises(t, r) ==
  /\ rag' = [r EXCEPT !.processing_status.status = "failed"]
  /\ tasks' = [tasks EXCEPT
                 ![t] = IF t = "startup" THEN [@ EXCEPT !.pc = "failed"]
                        ELSE [@ EXCEPT !.pc = "idle", !.raised = TRUE]]

\* initialize(): the three services are initialized by asyncio.gather with
\* return_exceptions=True, then _load_documents starts and awaits
\* get_collection_info.  LLMService.initialize catches the errors of both
\* of its providers, the other two re-raise theirs.
StartInitialize ==
  /\ tasks["startup"].pc = "idle"
  /\ \E emb \in BOOLEAN, vec \in BOOLEAN, found \in {0, ChunkCount} :
       /\ rag' = [rag EXCEPT !.model = emb, !.collection = vec,
                             !.stored = found,
                             !.processing_status.status = "processing"]
       /\ tasks' = [tasks EXCEPT
                      !["startup"] =
                        [pc |-> "load_info",
                         gathered |->
                           [embedding |-> IF emb THEN "ok" ELSE "raised",
                            llm |-> "ok",
                            vector_db |-> IF vec THEN "ok" ELSE "raised"]]]
  /\ UNCHANGED <<settings, hvars>>

\* _load_documents after get_collection_info: documents already stored, or
\* the PDF file is looked for and process_pdf_file awaited
LoadInfo(t) ==
  /\ tasks[t].pc = "load_info"
  /\ IF CollectionCount(rag) > 0
     THEN LoadReturns(t, Completed(rag, CollectionCount(rag)))
     ELSE \E pdf_exists \in BOOLEAN :
            IF pdf_exists
            THEN /\ tasks' = [tasks EXCEPT ![t].pc = "load_chunks"]
                 /\ rag' = rag
            ELSE LoadRaises(t, rag)
  /\ UNCHANGED <<settings, hvars>>

\* _load_documents after process_pdf_file: it raised, gave no chunks, or
\* gave chunks whose embeddings are awaited
LoadChunks(t) ==
  /\ tasks[t].pc = "load_chunks"
  /\ \E chunks \in {"raised", "none", "some"} :
       CASE chunks = "raised" -> LoadRaises(t, rag)
         [] chunks = "none" ->
              LoadReturns(t, [rag EXCEPT
                                !.processing_status.status = "completed"])
         [] chunks = "some" ->
              /\ tasks' = [tasks EXCEPT ![t].pc = "load_embed"]
              /\ rag' = rag
  /\ UNCHANGED <<settings, hvars>>

\* _load_documents after embed_texts, which loads the model first when it
\* is not loaded; then add_documents is awaited
LoadEmbed(t) ==
  /\ tasks[t].pc = "load_embed"
  /\ \E ok \in BOOLEAN :
       IF ok
       THEN /\ tasks' = [tasks EXCEPT ![t].pc = "load_store"]
            /\ rag' = [rag EXCEPT !.model = TRUE]
       ELSE LoadRaises(t, rag)
  /\ UNCHANGED <<settings, hvars>>

\* _load_documents after add_documents, which returns False when the add
\* fails (no collection, or the database refuses)
LoadStore(t) ==
  /\ tasks[t].pc = "load_store"
  /\ \E ok \in BOOLEAN :
       IF ok /\ rag.collection
       THEN LoadReturns(t, Completed([rag EXCEPT !.stored = ChunkCount],
                                     ChunkCount))
       ELSE LoadRaises(t, rag)
  /\ UNCHANGED <<settings, hvars>>

\* reload_documents is called and awaits delete_collection
ReloadBegin(t) ==
  /\ Serving
  /\ tasks[t].pc = "idle"
  /\ tasks' = [tasks EXCEPT ![t] = [IdleTask EXCEPT !.pc = "delete",
                                                    !.op = "reload"]]
  /\ UNCHANGED <<rag, settings, hvars>>

\* delete_collection has returned (True or False, not looked at) and
\* vector_db_service.initialize is awaited
ReloadDeleted(t) ==
  /\ tasks[t].pc = "delete"
  /\ \E ok \in BOOLEAN :
       rag' = IF ok THEN [rag EXCEPT !.collection = FALSE, !.stored = 0]
              ELSE rag
  /\ tasks' = [tasks EXCEPT ![t].pc = "reinit"]
  /\ UNCHANGED <<settings, hvars>>

\* vector_db_service.initialize has raised, or has opened the collection
\* and _load_documents starts
ReloadReinit(t) ==
  /\ tasks[t].pc = "reinit"
  /\ \E ok \in BOOLEAN :
       IF ok
       THEN /\ rag' = [rag EXCEPT !.collection = TRUE,
                                  !.processing_status.status = "processing"]
            /\ tasks' = [tasks EXCEPT ![t].pc = "load_info"]
       ELSE /\ rag' = rag
            /\ tasks' = [tasks EXCEPT ![t].pc = "idle", ![t].raised = TRUE]
  /\ UNCHANGED <<settings, hvars>>

\* search_documents is called: a custom threshold is written to the
\* settings after the old value is saved, and embed_text is awaited
SearchBegin(t) ==
  /\ Serving
  /\ tasks[t].pc = "idle"
  /\ \E th \in CustomThresholds \cup {None} :
       IF ~rag.is_initialized
       THEN /\ tasks' = [tasks EXCEPT
                           ![t] = [IdleTask EXCEPT
                                     !.op = "search",
                                     !.similarity_threshold = th]]
            /\ settings' = settings
       ELSE /\ tasks' = [tasks EXCEPT
                           ![t] = [IdleTask EXCEPT
                                     !.pc = "search_embed", !.op = "search",
                                     !.similarity_threshold = th,
                                     !.original_threshold =
                                       IF th # None
                                       THEN settings.SIMILARITY_THRESHOLD
                                       ELSE None]]
            /\ settings' = IF th # None
                           THEN [settings EXCEPT !.SIMILARITY_THRESHOLD = th]
                           ELSE settings
  /\ UNCHANGED <<rag, hvars>>

\* search_documents after embed_text: it raised and the except clause
\* returns [], or search_similar_documents is awaited
SearchEmbedded(t) ==
  /\ tasks[t].pc = "search_embed"
  /\ \E ok \in BOOLEAN :
       IF ok
       THEN /\ tasks' = [tasks EXCEPT ![t].pc = "search_query"]
            /\ rag' = [rag EXCEPT !.model = TRUE]
       ELSE /\ tasks' = [tasks EXCEPT ![t].pc = "idle"]
            /\ rag' = rag
  /\ UNCHANGED <<settings, hvars>>

\* search_documents after the query: the results are filtered with the
\* threshold the settings hold now, the saved threshold is written back
SearchFiltered(t) ==
  /\ tasks[t].pc = "search_query"
  /\ tasks' = [tasks EXCEPT
                 ![t].pc = "idle",
                 ![t].chunks = search_similar_documents(rag, settings)]
  /\ settings' = IF tasks[t].similarity_threshold # None
                 THEN [settings EXCEPT
                         !.SIMILARITY_THRESHOLD = tasks[t].original_threshold]
                 ELSE settings
  /\ UNCHANGED <<rag, hvars>>

\* ask_question is called and awaits embed_text
AskBegin(t) ==
  /\ Serving
  /\ tasks[t].pc = "idle"
  /\ tasks' = [tasks EXCEPT
                 ![t] = IF rag.is_initialized
                        THEN [IdleTask EXCEPT !.pc = "ask_embed",
                                              !.op = "ask"]
                        ELSE [IdleTask EXCEPT !.op = "ask", !.raised = TRUE]]
  /\ UNCHANGED <<rag, settings, hvars>>

\* ask_question after embed_text
AskEmbedded(t) ==
  /\ tasks[t].pc = "ask_embed"
  /\ \E ok \in BOOLEAN :
       IF ok
       THEN /\ tasks' = [tasks EXCEPT ![t].pc = "ask_query"]
            /\ rag' = [rag EXCEPT !.model = TRUE]
       ELSE /\ tasks' = [tasks EXCEPT ![t].pc = "idle", ![t].raised = TRUE]
            /\ rag' = rag
  /\ UNCHANGED <<settings, hvars>>

\* ask_question after the query: the results are filtered, the prompt is
\* built and the language model's answer is awaited
AskFiltered(t) ==
  /\ tasks[t].pc = "ask_query"
  /\ tasks' = [tasks EXCEPT
                 ![t].pc = "ask_llm",
                 ![t].chunks = search_similar_documents(rag, settings)]
  /\ UNCHANGED <<rag, settings, hvars>>

\* ask_question after generate_response, which answered or raised
AskAnswered(t) ==
  /\ tasks[t].pc = "ask_llm"
  /\ \E ok \in BOOLEAN :
       tasks' = [tasks EXCEPT ![t].pc = "idle", ![t].raised = ~ok]
  /\ UNCHANGED <<rag, settings, hvars>>

\* shutdown: cleanup() once the requests have been served
Cleanup ==
  /\ Serving
  /\ \A t \in RequestTasks : tasks[t].pc = "idle"
  /\ rag' = [rag EXCEPT !.is_initialized = FALSE]
  /\ tasks' = [tasks EXCEPT !["startup"].pc = "stopped"]
  /\ UNCHANGED <<settings, hvars>>

NextRetrieval ==
  \/ StartInitialize
  \/ Cleanup
  \/ \E t \in Tasks :
       \/ LoadInfo(t)
       \/ LoadChunks(t)
       \/ LoadEmbed(t)
       \/ LoadStore(t)
  \/ \E t \in RequestTasks :
       \/ ReloadBegin(t)
       \/ ReloadDeleted(t)
       \/ ReloadReinit(t)
       \/ SearchBegin(t)
       \/ SearchEmbedded(t)
       \/ SearchFiltered(t)
       \/ AskBegin(t)
       \/ AskEmbedded(t)
       \/ AskFiltered(t)
       \/ AskAnswered(t)

SpecRetrieval == Init /\ [][NextRetrieval]_vars

(***************************************************************************)
(* Properties                                                              *)
(***************************************************************************)
IsCalculation(c) == c.op \in {"calculate_duties", "calculate_tariff"}

\* the call returned an outcome (no exception reached the caller)
HasOutcome(c) == IsCalculation(c) /\ c.exc = NoException

\* the three column results of an outcome
ColumnResults(o) ==
  {o.duty_calculations.general, o.duty_calculations.special,
   o.duty_calculations.column2}

\* the product table holds a row for the HTS number
Stored(rows, hts_number) ==
  \E i \in 1..Len(rows) : rows[i].hts_number = hts_number

\* round-half-up of an amount in 1/1000 dollars to whole cents
HalfUpCents(mills) == (mills \div 10) + (IF mills % 10 >= 5 THEN 1 ELSE 0)

\* C1: parse_duty_rate never raises; a text it cannot evaluate gives a
\* result with applicable = false and at least one note.
C1_ParseNeverRaises ==
  pcall.pc = "done" =>
    /\ pcall.result.exc = NoException
    /\ ~pcall.result.ret.applicable => Len(pcall.result.ret.notes) >= 1

\* C2: a percentage term joined to a cent/kg term by '+', 'plus' or '&' is
\* Compound with two components and total round2(cif*5/100) +
\* round2(2*weight/100) when weight is supplied ('5% + 2 cent/kg').
C2_CompoundBeforePercentage ==
  ( /\ pcall.pc = "done"
    /\ pcall.duty_str \in {T_pct_plus_ckg, T_pct_word_ckg, T_pct_amp_ckg}
    /\ pcall.weight_kg # None ) =>
      /\ pcall.result.exc = NoException
      /\ pcall.result.ret.duty_type = "compound"
      /\ Len(pcall.result.ret.components) = 2
      /\ pcall.result.ret.total_amount =
           ((pcall.cif_value * 5 + 50) \div 100)
             + ((2 * pcall.weight_kg + 5) \div 10)

\* C3: when at least one column result is applicable, the result reported
\* as 'applicable' is one of the columns, is applicable, and no applicable
\* column has a smaller total_amount.
C3_LowestApplicableWins ==
  HasOutcome(last) =>
    LET cols   == ColumnResults(last.outcome)
        chosen == last.outcome.duty_calculations.applicable
    IN  (\E c \in cols : c.applicable) =>
          /\ chosen \in cols
          /\ chosen.applicable
          /\ \A c \in cols : c.applicable =>
               chosen.total_amount <= c.total_amount

\* general 50.00, special 22.50, column 2 not applicable: 22.50 is chosen
C3_Witness ==
  /\ HasOutcome(last)
  /\ last.outcome.duty_calculations.general.total_amount = 5000
  /\ last.outcome.duty_calculations.special.total_amount = 2250
  /\ ~last.outcome.duty_calculations.column2.applicable
  /\ last.outcome.duty_calculations.applicable.total_amount = 2250

\* C4: when none of the three column results is applicable, no outcome is
\* returned (the caller gets an error instead of a duty of 0.00).
C4_NoneApplicableIsError ==
  HasOutcome(last) => \E c \in ColumnResults(last.outcome) : c.applicable

\* C5: a calculation for an HTS number without product row raises the
\* not-found error, returns no outcome and appends no history row.
C5_NotFoundPropagates ==
  [][ ( /\ IsCalculation(last')
        /\ last'.db # "read_fails"
        /\ ~Stored(products, last'.args.hts_number) ) =>
          /\ last'.exc = NotFoundError
          /\ last'.outcome = NoOutcome
          /\ history' = history ]_vars

\* a not-found call that carried a session id, with other products stored
C5_Witness ==
  /\ last.op = "calculate_duties"
  /\ last.exc = NotFoundError
  /\ last.session_id # NoSession
  /\ Len(products) > 0
  /\ ~Stored(products, last.args.hts_number)

\* C6: the endpoint answers 404 exactly when the HTS number is not stored;
\* every other failure is answered with 500.
C6_NotFoundOnlyWhenAbsent ==
  (last.op = "calculate_tariff" /\ last.db # "read_fails") =>
    /\ last.status = 404 <=> ~Stored(products, last.args.hts_number)
    /\ last.status \in {200, 404, 500}

\* C7: when the history write fails, the call returns what it returns when
\* the write succeeds, raises nothing more, and no history row is left.
C7_HistoryFailureIsolated ==
  [][ (IsCalculation(last') /\ last'.db = "write_fails") =>
        LET ok == calculate_duties(
                    products, history,
                    [last'.args EXCEPT !.session_id = last'.session_id], "ok")
        IN  /\ last'.exc = ok.exc
            /\ last'.outcome = ok.outcome
            /\ history' = history ]_vars

\* a call whose history write was attempted and failed
C7_Witness ==
  /\ IsCalculation(last)
  /\ last.db = "write_fails"
  /\ last.session_id # NoSession
  /\ last.exc = NoException
  /\ last.outcome # NoOutcome

\* C8: landed_cost = cif_value + total_amount of the 'applicable' result and
\* total_duty is that same amount.
C8_LandedCost ==
  HasOutcome(last) =>
    LET o == last.outcome
    IN  /\ o.summary.total_duty = o.duty_calculations.applicable.total_amount
        /\ o.summary.landed_cost =
             o.summary.cif_value + o.duty_calculations.applicable.total_amount

\* two applicable columns with different positive amounts
C8_Witness ==
  /\ HasOutcome(last)
  /\ last.outcome.duty_calculations.general.applicable
  /\ last.outcome.duty_calculations.special.applicable
  /\ last.outcome.duty_calculations.general.total_amount > 0
  /\ last.outcome.duty_calculations.special.total_amount >
       last.outcome.duty_calculations.general.total_amount
  /\ last.outcome.summary.landed_cost > last.outcome.summary.cif_value

\* C9: the CIF value is round-half-up(cost + freight + insurance), it is
\* reported in input_values and in summary, and each column is evaluated
\* with it.
C9_CifValue ==
  HasOutcome(last) =>
    LET a   == last.args
        o   == last.outcome
        cif == HalfUpCents(a.product_cost + a.freight + a.insurance)
        row == products[CHOOSE i \in 1..Len(products) :
                          products[i].hts_number = a.hts_number]
        Col(text) == _format_duty_calculation(
                       parse_duty_rate(text, cif, a.weight_kg, a.quantity).ret)
    IN  /\ o.input_values.cif_value = cif
        /\ o.summary.cif_value = cif
        /\ o.duty_calculations.general = Col(row.general_duty_rate)
        /\ o.duty_calculations.special = Col(row.special_duty_rate)
        /\ o.duty_calculations.column2 = Col(row.column2_duty_rate)

\* $10.011 + $0.004 + $0.010 = $10.025, a half that rounds up to $10.03
C9_Witness ==
  /\ HasOutcome(last)
  /\ last.args.product_cost + last.args.freight + last.args.insurance = 10025
  /\ last.outcome.summary.cif_value = 1003
  /\ last.outcome.duty_calculations.general.duty_type = "percentage"

\* C10: a null, empty, blank, 'free', '0' or '0%' text (any case) gives kind
\* Free with one Free component, amount 0, rate 0, applicable, for every
\* cif, weight and quantity; the empty text gives what 'free' gives.
C10_FreeTexts ==
  LET View(r) == [r.ret EXCEPT !.original_rate = <<>>]
      Parse(t) == parse_duty_rate(t, pcall.cif_value, pcall.weight_kg,
                                  pcall.quantity)
  IN  ( /\ pcall.pc = "done"
        /\ pcall.duty_str \in {NoText, T_empty, T_blank, T_free, T_Free,
                               T_FREE_pad, T_zero, T_zero_pct} ) =>
          /\ pcall.result.exc = NoException
          /\ pcall.result.ret.duty_type = "free"
          /\ Len(pcall.result.ret.components) = 1
          /\ pcall.result.ret.components[1].type = "free"
          /\ pcall.result.ret.components[1].amount = 0
          /\ pcall.result.ret.total_amount = 0
          /\ pcall.result.ret.effective_rate[1] = 0
          /\ pcall.result.ret.applicable
          /\ View(Parse(T_empty)) = View(Parse(T_free))

\* ' FREE ' parsed without weight and quantity
C10_Witness ==
  /\ pcall.pc = "done"
  /\ pcall.duty_str = T_FREE_pad
  /\ pcall.weight_kg = None
  /\ pcall.quantity = None
  /\ pcall.result.ret.duty_type = "free"

\* num/den rounded half-up to an integer, by quotient and remainder
HalfUpDiv(num, den) ==
  (num \div den) + (IF 2 * (num % den) >= den THEN 1 ELSE 0)

\* two rates <<mantissa, scale>> / <<numerator, denominator>> are equal
SameRate(a, b) == a[1] * b[2] = b[1] * a[2]

\* the parser was called and returned
ParseReturned == pcall.pc \in {"done", "landed"} /\ pcall.result.exc = NoException

\* C11: a number immediately followed by '%' gives kind Percentage,
\* applicable, one component, total_amount = round-half-up(cif * rate / 100)
\* and effective_rate equal to the literal rate.
C11_PercentageDuty ==
  (pcall.pc \in {"done", "landed"} /\ pcall.duty_str \in {T_5pct, T_26_4pct}) =>
    LET r    == pcall.result.ret
        rate == IF pcall.duty_str = T_5pct THEN <<5, 1>> ELSE <<264, 10>>
    IN  /\ pcall.result.exc = NoException
        /\ r.duty_type = "percentage"
        /\ r.applicable
        /\ Len(r.components) = 1
        /\ r.components[1].type = "percentage"
        /\ r.total_amount = HalfUpDiv(pcall.cif_value * rate[1], 100 * rate[2])
        /\ SameRate(r.effective_rate, rate)

\* '5%' at cif 0.10: 0.005 rounds half-up to 0.01, the rate stays 5
C11_Witness ==
  /\ pcall.pc = "done"
  /\ pcall.duty_str = T_5pct
  /\ pcall.cif_value = 10
  /\ pcall.result.ret.total_amount = 1
  /\ SameRate(pcall.result.ret.effective_rate, <<5, 1>>)

\* C12: '4.5 cent-sign/kg' with weight supplied is SpecificWeight, applicable,
\* total_amount = round2(4.5 * weight_kg / 100); without weight it is not
\* applicable, total_amount 0, with a note that weight is required.
C12_WeightDuty ==
  (pcall.pc \in {"done", "landed"} /\ pcall.duty_str = T_4_5ckg) =>
    LET r == pcall.result.ret
    IN  /\ pcall.result.exc = NoException
        /\ pcall.weight_kg # None =>
             /\ r.duty_type = "specific_weight"
             /\ r.applicable
             /\ Len(r.components) = 1
             /\ r.total_amount =
                  HalfUpDiv(45 * pcall.weight_kg, 10 * WeightScale)
        /\ pcall.weight_kg = None =>
             /\ ~r.applicable
             /\ r.total_amount = 0
             /\ r.notes = << <<"Error: ",
                               "Weight required for weight-based duty">> >>

\* 4.5 cent/kg on 500.0 kg is 22.50
C12_Witness ==
  /\ pcall.pc = "done"
  /\ pcall.duty_str = T_4_5ckg
  /\ pcall.weight_kg = 500 * WeightScale
  /\ pcall.result.ret.duty_type = "specific_weight"
  /\ pcall.result.ret.total_amount = 2250

\* C13: '4.5 cents/kg' with weight supplied gives what '4.5 cent-sign/kg'
\* gives: SpecificWeight, applicable, total_amount = round2(4.5*weight/100).
C13_TextualCentsMarker ==
  ( /\ pcall.pc \in {"done", "landed"}
    /\ pcall.duty_str = T_cents_kg
    /\ pcall.weight_kg > 0 ) =>
      /\ pcall.result.exc = NoException
      /\ pcall.result.ret.duty_type = "specific_weight"
      /\ pcall.result.ret.applicable
      /\ pcall.result.ret.total_amount =
           HalfUpDiv(45 * pcall.weight_kg, 10 * WeightScale)

\* C14: '$1.50/unit' and '1.50 per unit' with quantity supplied are
\* SpecificUnit, applicable, total_amount = round2(1.50 * quantity); without
\* quantity they are not applicable.
C14_UnitDuty ==
  ( /\ pcall.pc \in {"done", "landed"}
    /\ pcall.duty_str \in {T_usd_unit, T_per_unit} ) =>
      /\ pcall.result.exc = NoException
      /\ pcall.quantity > 0 =>
           /\ pcall.result.ret.duty_type = "specific_unit"
           /\ pcall.result.ret.applicable
           /\ pcall.result.ret.total_amount = 150 * pcall.quantity
      /\ pcall.quantity = None => ~pcall.result.ret.applicable

\* C15: a text without any rate pattern gives kind Unparseable (not
\* Complex), not applicable, total_amount 0, no components and a note.
C15_UnparseableKind ==
  (pcall.pc \in {"done", "landed"} /\ pcall.duty_str = T_garbage) =>
    /\ pcall.result.exc = NoException
    /\ pcall.result.ret.duty_type = "unparseable"
    /\ ~pcall.result.ret.applicable
    /\ pcall.result.ret.total_amount = 0
    /\ pcall.result.ret.components = <<>>
    /\ Len(pcall.result.ret.notes) >= 1

\* C16: every result has effective_rate = total_amount / cif_value * 100
\* when cif_value > 0 and effective_rate = 0 when cif_value = 0.
C16_EffectiveRate ==
  ParseReturned =>
    LET r == pcall.result.ret
    IN  IF pcall.cif_value > 0
        THEN SameRate(r.effective_rate, <<100 * r.total_amount, pcall.cif_value>>)
        ELSE r.effective_rate[1] = 0

\* the amount of a component recomputed from its kind and rate: the exact
\* value rounded half-up to cents, once
RoundedOnce(c) ==
  CASE c.type = "percentage" ->
         HalfUpDiv(pcall.cif_value * c.rate[1], 100 * c.rate[2])
    [] c.type = "specific_weight" ->
         HalfUpDiv(c.rate[1] * pcall.weight_kg, c.rate[2] * WeightScale)
    [] c.type = "specific_unit" ->
         HalfUpDiv(100 * c.rate[1] * pcall.quantity, c.rate[2])
    [] OTHER -> 0

\* sum of the amounts of the first n components
RECURSIVE AmountsUpTo(_, _)
AmountsUpTo(cs, n) ==
  IF n = 0 THEN 0 ELSE AmountsUpTo(cs, n - 1) + cs[n].amount

CleanCell(cell) == ~isna(cell) /\ strip(cell) = cell

CleanRow(row) ==
  /\ CleanCell(row.hts_number)
  /\ CleanCell(row.description)
  /\ CleanCell(row.general_duty_rate)
  /\ CleanCell(row.special_duty_rate)
  /\ CleanCell(row.column2_duty_rate)

\* bulk_import_hts_data returned its counters
ImportReturned == last.op = "bulk_import" /\ last.exc = NoException

\* C18: after an import, the lookup of the HTS number of a row that was
\* processed (the last one of the file for that number) returns the row's
\* description and three rate strings, for an insert and for an update.
C18_ImportRoundTrip ==
  ImportReturned =>
    \A i \in 1..Len(last.args.df) :
      LET row == last.args.df[i]
          p   == get_hts_product(products, row.hts_number)
      IN  ( /\ CleanRow(row)
            /\ last.args.dbs[i] = "ok"
            /\ \A k \in (i + 1)..Len(last.args.df) :
                 last.args.df[k].hts_number # row.hts_number ) =>
              /\ p.description = row.description
              /\ p.general_duty_rate = row.general_duty_rate
              /\ p.special_duty_rate = row.special_duty_rate
              /\ p.column2_duty_rate = row.column2_duty_rate

\* C19: the product table holds at most one row per HTS number, whatever
\* the interleaving of the callers' add and import steps.
C19_OneRowPerHts ==
  \A i, j \in 1..Len(products) :
    products[i].hts_number = products[j].hts_number => i = j

\* the rows of the file that have an HTS number
WithHts(df) == {i \in 1..Len(df) : ~isna(df[i].hts_number)}

\* C20: rows without HTS number are counted nowhere, a row that raises is
\* counted in errors and the rows after it are still processed, every other
\* row is imported or updated, and total_processed = imported + updated +
\* errors = rows - skipped rows.
C20_ImportCounters ==
  ImportReturned =>
    LET df  == last.args.df
        dbs == last.args.dbs
        r   == last.outcome
    IN  /\ r.total_processed = r.imported + r.updated + r.errors
        /\ r.total_processed = Cardinality(WithHts(df))
        /\ r.errors >= Cardinality({i \in WithHts(df) : dbs[i] = "read_fails"})
        /\ r.errors <= Cardinality({i \in WithHts(df) : dbs[i] # "ok"})
        /\ r.imported + r.updated >=
             Cardinality({i \in WithHts(df) : dbs[i] = "ok"})
        /\ \A i \in WithHts(df) :
             dbs[i] = "ok" =>
               Stored(products, strip(py_str(df[i].hts_number)))

\* first row raises, second row has no HTS number, third row is imported
C20_Witness ==
  /\ ImportReturned
  /\ Len(last.args.df) = 3
  /\ last.args.dbs[1] = "read_fails"
  /\ isna(last.args.df[2].hts_number)
  /\ last.outcome.errors = 1
  /\ last.outcome.imported = 1
  /\ last.outcome.total_processed = 2

\* the history row of the call just made
HistoryRowOf(c) ==
  [session_id |-> c.session_id, hts_number |-> c.args.hts_number,
   country_code |-> c.args.country_code,
   cif_value |-> c.outcome.summary.cif_value,
   total_duty |-> c.outcome.summary.total_duty,
   landed_cost |-> c.outcome.summary.landed_cost]

\* the rows before the step are the first rows after it, unchanged
HistoryKept ==
  /\ Len(history') >= Len(history)
  /\ SubSeq(history', 1, Len(history)) = history

IsBlank(text) == text = NoText \/ strip(text) = <<>>

\* a column result that is Free: kind free, amount 0, applicable
IsFreeResult(r) ==
  r.duty_type = "free" /\ r.total_amount = 0 /\ r.applicable

\* the rows of the file of import c that created a product: rows with an HTS
\* number and a working database, when the import updated no row
CreatedRows(c) ==
  IF c.outcome.updated # 0 THEN {}
  ELSE {i \in WithHts(c.args.df) : c.args.dbs[i] = "ok"}

\* C22: calculate_duties evaluates a null or blank rate column as Free; so
\* it does, in a calculation that follows an import, for the columns whose
\* CSV cell was empty in the row that created the product.
C22_BlankIsFree ==
  [][ HasOutcome(last') =>
        LET p == get_hts_product(products, last'.args.hts_number)
            o == last'.outcome.duty_calculations
        IN  /\ IsBlank(p.general_duty_rate) => IsFreeResult(o.general)
            /\ IsBlank(p.special_duty_rate) => IsFreeResult(o.special)
            /\ IsBlank(p.column2_duty_rate) => IsFreeResult(o.column2)
            /\ ImportReturned =>
                 \A i \in CreatedRows(last) :
                   LET row == last.args.df[i]
                   IN  strip(py_str(row.hts_number)) = last'.args.hts_number
                       => /\ isna(row.general_duty_rate)
                               => IsFreeResult(o.general)
                          /\ isna(row.special_duty_rate)
                               => IsFreeResult(o.special)
                          /\ isna(row.column2_duty_rate)
                               => IsFreeResult(o.column2) ]_vars

\* the call was made for a stored product whose general rate is 'Free'
GeneralIsFree ==
  /\ IsCalculation(last)
  /\ Stored(products, last.args.hts_number)
  /\ lower(strip(get_hts_product(products, last.args.hts_number)
                   .general_duty_rate)) = T_free

\* the call was made with the shipment of the donkey test
IsScenario(a) ==
  /\ <<a.product_cost, a.freight, a.insurance>> = ScenarioMoney
  /\ a.quantity = ScenarioQuantity
  /\ a.weight_kg = 5000

\* C23: for a product whose general rate is 'Free', calculate_duties returns
\* total_duty 0.00 and landed_cost = cif_value, whatever the other two
\* columns hold; for cost 10000, freight 500, insurance 100, 5 units and
\* 500 kg it returns cif_value 10600.00 and landed_cost 10600.00.
C23_FreeGeneral ==
  GeneralIsFree =>
    /\ HasOutcome(last)
    /\ last.outcome.summary.total_duty = 0
    /\ last.outcome.summary.landed_cost = last.outcome.summary.cif_value
    /\ IsScenario(last.args) =>
         /\ last.outcome.summary.cif_value = 1060000
         /\ last.outcome.summary.landed_cost = 1060000

\* the table that holds the product a call read, and nothing else
TableOf(p) == IF p = NoProduct THEN <<>> ELSE <<p>>

\* C24: what a calculate_duties call gives its caller is what the same call
\* gives when it is made alone, on a table holding just the product record
\* it read, with no history rows and a working database: it depends neither
\* on the calls made before it nor on those under way beside it.
C24_IndependentCalls ==
  [][ \A c \in Callers :
        (callers[c].pc = "read" /\ callers'[c].pc = "idle") =>
          LET alone == calculate_duties(TableOf(callers[c].p), <<>>,
                                        callers[c].a, "ok")
          IN  /\ last'.args = callers[c].a
              /\ last'.exc = alone.exc
              /\ last'.outcome = alone.outcome ]_vars

\* a call with a session id has returned and its history row is written,
\* the other caller has read its product and not yet returned, and the
\* product row is no longer the one the finished call read
C24_Witness ==
  /\ HasOutcome(last)
  /\ last.session_id # NoSession
  /\ Len(history) >= 1
  /\ \E c \in Callers :
       callers[c].pc = "read" /\ callers[c].p # NoProduct
  /\ Len(products) >= 1
  /\ products[1].general_duty_rate # last.outcome.duty_calculations.general.original_rate

\* C25: '5% or 10%' holds two percentages and no compound delimiter: the
\* result has kind Complex, one component per occurrence (5% and 10% of the
\* CIF value), total_amount equal to their sum and the note that recommends
\* manual verification.
C25_AllOccurrences ==
  (pcall.pc \in {"done", "landed"} /\ pcall.duty_str = T_two_pct) =>
    LET r == pcall.result.ret
    IN  /\ pcall.result.exc = NoException
        /\ r.duty_type = "complex"
        /\ Len(r.components) = 2
        /\ r.components[1].amount = PercentAmount(pcall.cif_value, <<5, 1>>)
        /\ r.components[2].amount = PercentAmount(pcall.cif_value, <<10, 1>>)
        /\ r.total_amount = r.components[1].amount + r.components[2].amount
        /\ r.notes =
             <<"Complex duty structure - manual verification recommended">>

\* the components of result r that have the given type
OfType(r, type) == {i \in 1..Len(r.components) : r.components[i].type = type}

\* C26: in every result of parse_duty_rate total_amount is the sum of the
\* amounts of the components listed; a compound or complex result lists no
\* weight component when the weight is missing and no unit component when
\* the quantity is missing, and the two unit occurrences of
\* '.0005unit.0005unit' are both listed and added when there is a quantity.
C26_TotalIsSum ==
  ParseReturned =>
    LET r == pcall.result.ret
    IN  /\ r.total_amount = AmountsUpTo(r.components, Len(r.components))
        /\ r.duty_type \in {"compound", "complex"} =>
             /\ pcall.weight_kg = None => OfType(r, "specific_weight") = {}
             /\ pcall.quantity = None => OfType(r, "specific_unit") = {}
             /\ r.components = <<>> => r.total_amount = 0
        /\ (pcall.duty_str = T_two_units /\ pcall.quantity > 0) =>
             /\ Cardinality(OfType(r, "specific_unit")) = 2
             /\ r.total_amount =
                  2 * UnitAmount(<<5, 10000>>, pcall.quantity)

\* a complex result with two components whose amounts are added, computed
\* without a weight
C26_Witness ==
  /\ ParseReturned
  /\ pcall.result.ret.duty_type = "complex"
  /\ pcall.weight_kg = None
  /\ pcall.quantity = 10
  /\ Len(pcall.result.ret.components) = 2
  /\ pcall.result.ret.components[1].amount = 1
  /\ pcall.result.ret.total_amount = 2

\* C27: every column result with applicable = true lists at least one
\* component, and so does the result chosen as the applicable duty: a text
\* in which no rate was recognized never wins the selection with 0.00.
C27_ApplicableHasComponent ==
  HasOutcome(last) =>
    \A r \in ColumnResults(last.outcome) \cup
               {last.outcome.duty_calculations.applicable} :
      r.applicable => Len(r.components) >= 1

\* no search_documents call is under way
NoSearchRunning(ts) ==
  \A t \in RequestTasks : ts[t].pc \notin {"search_embed", "search_query"}

\* the settings a search_documents call is to be filtered with: its own
\* threshold if it passed one, the configured one otherwise
OwnSettings(task) ==
  [SIMILARITY_THRESHOLD |->
     IF task.similarity_threshold # None THEN task.similarity_threshold
     ELSE DefaultThreshold]

\* C28: once the search_documents calls have returned, normally or through
\* the error path, settings.SIMILARITY_THRESHOLD is what it was before
\* them; the results of an ask_question are filtered with the configured
\* threshold and those of a search with its own, whatever the other
\* coroutines do.
C28_ThresholdRestored ==
  [][ /\ NoSearchRunning(tasks') =>
           settings'.SIMILARITY_THRESHOLD = DefaultThreshold
      /\ \A t \in RequestTasks :
           /\ (tasks[t].pc = "ask_query" /\ tasks'[t].pc = "ask_llm") =>
                tasks'[t].chunks =
                  search_similar_documents(rag, DefaultSettings)
           /\ (tasks[t].pc = "search_query" /\ tasks'[t].pc = "idle") =>
                tasks'[t].chunks =
                  search_similar_documents(rag, OwnSettings(tasks[t])) ]_vars

\* C29: is_initialized = true implies processing_status.status =
\* 'completed', in every state: before, during and after a reload.
C29_InitializedMeansLoaded ==
  rag.is_initialized => rag.processing_status.status = "completed"

\* C30: is_initialized is true only if the embedding, language-model and
\* vector-database initializations all completed without error; when one of
\* them raised, initialize() fails and is_initialized stays false.
C30_InitializeNeedsAllServices ==
  LET g == tasks["startup"].gathered
      raised == "raised" \in {g.embedding, g.llm, g.vector_db}
  IN  /\ rag.is_initialized => ~raised
      /\ raised => tasks["startup"].pc # "done"

====
